---- MODULE Spec2Model ----
(***************************************************************************)
(* mapbots: the directed section graph built from OSM ways                 *)
(* (osmreader/graphbuilder.py) and the A* planner that searches it         *)
(* (planners/astar.py, planners/common.py).                                *)
(*                                                                         *)
(* Conventions of the model                                                *)
(*  - a way id is the way's index in `ways`; a section name "<way>_<k>" is  *)
(*    the pair <<way, k>>, ordered as the strings are for one-digit ids;   *)
(*  - node ids are 1..n; every node lies on one meridian, its latitude a   *)
(*    whole number of length units, so the geodesic distance of two points *)
(*    is the absolute difference of their latitudes;                       *)
(*  - a Python exception is the field `err` of the builder state: once it  *)
(*    is set, the statements that follow in the code are skipped.          *)
(***************************************************************************)
EXTENDS Integers, Sequences, FiniteSets, TLC

\* Bound of the inputs: the total number of node references (the summed
\* lengths of the node lists) of all ways of one input.
MaxRefs == 6

VARIABLES
    ways,       \* DirectionalGraphBuilder.ways: way id -> [nodes, tags]
    nodes,      \* DirectionalGraphBuilder.nodes: node id -> [lat, lon, ways]
    sections,   \* Way.sections of every way
    graph,      \* the digraph: [attrs: name -> attributes, nbrs: name -> successors]
    bpc,        \* position of build(): "split", "connect", "done", "raised", "idle"
    cur,        \* the way the running loop of build() is at
    warned,     \* ways whose roundabout closure logged the warning
    earlier,    \* the graph an earlier builder made of the same Way objects
    xml,        \* the OSM file: its node and way elements, in file order
    sent,       \* _xml_parser: how many elements of the file it has sent
    pipe,       \* the Pipe from _xml_parser to MultiReader.load, in flight
    ppc,        \* _xml_parser: "opening" (a file that is there), "nofile" (one that is not),
                \*              "parsing", "exited", "failed", "idle"
    lpc,        \* MultiReader.load: "loading", "backrefs", "loaded", "raised", "idle"
    ntasks,     \* Astar_benchmark: len(paths) * runs, the queries to queue
    nput,       \* Astar_benchmark: j, the queries queued so far
    nstop,      \* Astar_benchmark: the stop signals queued so far
    taskqueue,  \* the JoinableQueue: the items not yet taken, in order
    unfinished, \* the JoinableQueue: items put and not yet task_done
    results,    \* the result Queue: how many records wait in it
    wpc,        \* Astar_worker, per worker: "get", "run", "report", "stop", "exited", "died", "idle"
    mpc,        \* Astar_benchmark: "put", "stop", "wait", "join", "joinprocs", "done", "idle"
    start,      \* Astar: the start section
    goal,       \* Astar: the goal section
    fringe,     \* Astar: the heap, a Python list of <<f, section>>
    closed,     \* Astar: the set of expanded sections
    ancestors,  \* Astar: section -> predecessor
    g,          \* Astar: section -> accumulated cost
    current,    \* Astar: the section being expanded
    todo,       \* Astar: the neighbours the for loop has still to visit
    apc,        \* Astar: "pop", "relax", "returned", "raised", "idle"
    result,     \* Astar: the returned value
    pops,       \* Astar: sections popped so far, in order
    replaced,   \* Astar: whether lines 62-68 have replaced a fringe entry
    istart,     \* iterative_deepening: start_node
    igoal,      \* iterative_deepening: goal_node
    imax,       \* iterative_deepening: max_depth
    lim,        \* iterative_deepening: the depth limit of the for loop
    ipc,        \* iterative_deepening: "loop", "returned", "idle"
    iresult     \* iterative_deepening: the returned value

bvars == <<ways, nodes, sections, graph, bpc, cur, warned, earlier>>
lvars == <<xml, sent, pipe, ppc, lpc>>
kvars == <<ntasks, nput, nstop, taskqueue, unfinished, results, wpc, mpc>>
ivars == <<istart, igoal, imax, lim, ipc, iresult>>
avars == <<start, goal, fringe, closed, ancestors, g, current, todo, apc, result, pops, replaced>>
vars == <<ways, nodes, sections, graph, bpc, cur, warned, earlier,
          xml, sent, pipe, ppc, lpc,
          ntasks, nput, nstop, taskqueue, unfinished, results, wpc, mpc,
          start, goal, fringe, closed, ancestors, g, current, todo, apc, result, pops, replaced,
          istart, igoal, imax, lim, ipc, iresult>>

----------------------------------------------------------------------------
(* Helpers on sequences.                                                   *)

Abs(x) == IF x < 0 THEN -x ELSE x

Range(s) == {s[i] : i \in 1..Len(s)}

SeqMax(s) == IF s = <<>> THEN 0 ELSE CHOOSE m \in Range(s) : \A x \in Range(s) : x <= m

\* list.index(x, from): the first position >= from holding x, 0 when there
\* is none (Python raises ValueError).
Index(s, x, from) ==
    IF \E i \in from..Len(s) : s[i] = x
    THEN CHOOSE i \in from..Len(s) : s[i] = x /\ \A j \in from..(i-1) : s[j] # x
    ELSE 0

Count(s, x) == Cardinality({i \in 1..Len(s) : s[i] = x})

NoFun == [x \in {} |-> x]

----------------------------------------------------------------------------
(* osmreader/elements.py                                                   *)

\* The values of tags: a Python bool, int, float (whole ones) or str.
PyBool(b) == [type |-> "bool", val |-> b]
PyInt(i) == [type |-> "int", val |-> i]
PyFloat(i) == [type |-> "float", val |-> i]
PyStr(str) == [type |-> "str", val |-> str]

\* The number a bool, int or float is compared as.
PyNumber(x) == IF x.type = "bool" THEN (IF x.val THEN 1 ELSE 0) ELSE x.val

\* Python's x == y: a str equals no number, True == 1 == 1.0.
PyEq(x, y) ==
    IF x.type = "str" \/ y.type = "str"
    THEN x.type = y.type /\ x.val = y.val
    ELSE PyNumber(x) = PyNumber(y)

\* Way.is_oneway
is_oneway(way) ==
    IF "oneway" \in DOMAIN way.tags /\ PyEq(way.tags["oneway"], PyBool(TRUE)) THEN TRUE
    ELSE IF "junction" \in DOMAIN way.tags /\ PyEq(way.tags["junction"], PyStr("roundabout")) THEN TRUE
    ELSE FALSE

----------------------------------------------------------------------------
(* The inputs: ways over node ids, the node table with its back-references *)

\* The tags is_oneway reads, as the loader makes them: none, oneway=1,
\* junction=roundabout.
NoTags == [k \in {} |-> PyInt(0)]
OnewayTags == [k \in {"oneway"} |-> PyInt(1)]
RoundaboutTags == [k \in {"junction"} |-> PyStr("roundabout")]
TagSets == {NoTags, OnewayTags, RoundaboutTags}

\* The node lists of all ways laid end to end, node ids numbered in the order
\* they first appear (node ids are opaque to the builder).
Canon(n) ==
    {s \in [1..n -> 1..n] :
        /\ s[1] = 1
        /\ \A i \in 2..n : s[i] = 1 \/ \E j \in 1..(i - 1) : s[j] = s[i] - 1}

\* The ways' lengths: every way has at least two nodes.
RECURSIVE Parts(_)
Parts(n) ==
    IF n = 0 THEN {<<>>}
    ELSE UNION {{<<k>> \o p : p \in Parts(n - k)} : k \in 2..n}

RECURSIVE Offset(_, _)
Offset(p, i) == IF i = 1 THEN 0 ELSE Offset(p, i - 1) + p[i - 1]

WaysOf(s, p, t) ==
    [w \in 1..Len(p) |->
        [nodes |-> SubSeq(s, Offset(p, w) + 1, Offset(p, w) + p[w]), tags |-> t[w]]]

\* ways is one of the inputs whose tags are among tagsets.
IsInput(ws, tagsets) ==
    \E n \in 2..MaxRefs : \E s \in Canon(n) : \E p \in Parts(n) :
        \E t \in [1..Len(p) -> tagsets] : ws = WaysOf(s, p, t)

NodeIds(ws) == UNION {Range(ws[w].nodes) : w \in DOMAIN ws}

\* MultiReader.load, the back-reference pass: for way in ways, for node in
\* way.nodes: nodes[node].ways.append(way).
RECURSIVE BackRefs(_, _, _)
BackRefs(ws, n, w) ==
    IF w = 0 THEN <<>>
    ELSE BackRefs(ws, n, w - 1) \o [i \in 1..Count(ws[w].nodes, n) |-> w]

\* Node(id, lat, lon): the nodes lie on one meridian, node n at latitude n.
NodesOf(ws) ==
    [n \in NodeIds(ws) |-> [lat |-> n, lon |-> 0, ways |-> BackRefs(ws, n, Len(ws))]]

----------------------------------------------------------------------------
(* pygraph.classes.digraph, as graphbuilder.py uses it                     *)

EmptyGraph == [attrs |-> NoFun, nbrs |-> NoFun]

has_node(gr, name) == name \in DOMAIN gr.attrs

has_edge(gr, u, v) == has_node(gr, u) /\ v \in Range(gr.nbrs[u])

Edges(gr) == {e \in (DOMAIN gr.attrs) \X (DOMAIN gr.attrs) : has_edge(gr, e[1], e[2])}

\* The builder state: the graph, every Way.sections, the exception raised.
\* graph.add_node(name, attrs): AdditionError when the node exists.
add_node(b, name, attrs) ==
    IF b.err # "none" THEN b
    ELSE IF has_node(b.graph, name) THEN [b EXCEPT !.err = "AdditionError"]
    ELSE [b EXCEPT !.graph = [attrs |-> (name :> attrs) @@ b.graph.attrs,
                              nbrs |-> (name :> <<>>) @@ b.graph.nbrs]]

\* graph.add_edge((u, v)): AdditionError when an end is no node of the graph
\* or the edge exists.
add_edge(b, u, v) ==
    IF b.err # "none" THEN b
    ELSE IF ~has_node(b.graph, u) \/ ~has_node(b.graph, v) THEN [b EXCEPT !.err = "AdditionError"]
    ELSE IF has_edge(b.graph, u, v) THEN [b EXCEPT !.err = "AdditionError"]
    ELSE [b EXCEPT !.graph.nbrs[u] = Append(@, v)]

add_edge_unguarded(b, u, v) == add_edge(b, u, v)

\* try: graph.add_edge(...) except AdditionError: pass
add_edge_ignore(b, u, v) ==
    IF b.err # "none" THEN b
    ELSE LET r == add_edge(b, u, v) IN IF r.err = "AdditionError" THEN b ELSE r

----------------------------------------------------------------------------
(* osmreader/graphbuilder.py                                               *)

Point(nd, n) == <<nd[n].lat, nd[n].lon>>

\* geopy.distance.distance(p, q).m for two points of one meridian.
Distance(p, q) == Abs(p[1] - q[1])

RECURSIVE SumDist(_, _)
SumDist(points, i) ==
    IF i >= Len(points) THEN 0
    ELSE Distance(points[i], points[i + 1]) + SumDist(points, i + 1)

\* calculate_distance(points); -1 stands for the ValueError of fewer than
\* two points.
calculate_distance(points) == IF Len(points) < 2 THEN -1 ELSE SumDist(points, 1)

BackEdgeAlways(way) == TRUE

\* The guard of the intra-way back edge in _build_section.
BackEdgeWanted(way) == ~is_oneway(way)

\* DirectionalGraphBuilder._build_section(way, start_node, end_node)
_build_section(ws, nd, b, w, start_node, end_node) ==
    IF b.err # "none" THEN b
    ELSE
    LET wn == ws[w].nodes
        s == Index(wn, start_node, 1)
        e == IF s = 0 THEN 0 ELSE Index(wn, end_node, s + 1)
    IN  IF s = 0 \/ e = 0 THEN [b EXCEPT !.err = "ValueError"]
        ELSE
        LET path == [i \in 1..(e - s + 1) |-> Point(nd, wn[s + i - 1])]
            length == calculate_distance(path)
            name == <<w, b.sections[w]>>
            attrs == [start_node |-> start_node, end_node |-> end_node,
                      tags |-> ws[w].tags, way |-> w,
                      length |-> length, path |-> path]
            b1 == add_node(b, name, attrs)
            previous_name == <<w, b.sections[w] - 1>>
            b2 == IF b.sections[w] > 0 THEN add_edge(b1, previous_name, name) ELSE b1
            b3 == IF b.sections[w] > 0 /\ BackEdgeWanted(ws[w])
                  THEN add_edge(b2, name, previous_name) ELSE b2
        IN  IF length < 0 THEN [b EXCEPT !.err = "ValueError"]
            ELSE IF b3.err # "none" THEN b3
            ELSE [b3 EXCEPT !.sections[w] = @ + 1]

\* The guard of a junction in build(): len(self.nodes[node].ways) > 1.
IsJunction(nd, n) == Len(nd[n].ways) > 1

\* build(), lines 45-52: the scan of way.nodes[1:]. st = [b, last_junction].
RECURSIVE ScanNodes(_, _, _, _, _)
ScanNodes(ws, nd, st, w, i) ==
    IF i > Len(ws[w].nodes) THEN st
    ELSE LET node == ws[w].nodes[i]
         IN  IF IsJunction(nd, node)
             THEN ScanNodes(ws, nd,
                            [b |-> _build_section(ws, nd, st.b, w, st.last_junction, node),
                             last_junction |-> node], w, i + 1)
             ELSE ScanNodes(ws, nd, st, w, i + 1)

ClosureNever(way) == FALSE

\* The guard of the closure edge in build(), line 60.
ClosureWanted(way) == way.nodes[1] = way.nodes[Len(way.nodes)]

\* build(), lines 59-68: the closure edge; an AdditionError is caught and
\* logged as a warning.
CloseWay(ws, b, w) ==
    IF b.err # "none" THEN b
    ELSE IF ClosureWanted(ws[w])
    THEN LET first == <<w, 0>>
             last == <<w, b.sections[w] - 1>>
             r == add_edge(b, last, first)
         IN  IF r.err = "AdditionError" THEN [b EXCEPT !.warned = @ \cup {w}] ELSE r
    ELSE b

SplitOneWithoutDeadEnd(ws, nd, b, w) ==
    CloseWay(ws, ScanNodes(ws, nd, [b |-> b, last_junction |-> ws[w].nodes[1]], w, 2).b, w)

\* build(), lines 40-68: one iteration of the first loop.
SplitOne(ws, nd, b, w) ==
    LET st == ScanNodes(ws, nd, [b |-> b, last_junction |-> ws[w].nodes[1]], w, 2)
        b1 == IF st.last_junction # ws[w].nodes[Len(ws[w].nodes)]
              THEN _build_section(ws, nd, st.b, w, st.last_junction, ws[w].nodes[Len(ws[w].nodes)])
              ELSE st.b
    IN  CloseWay(ws, b1, w)

ConnectsToEndOfAnyWay(other_way, other_attrs, node) == other_attrs.end_node = node

\* The guard of the two edges _connect_sections adds.
ConnectsToStart(other_attrs, node) == other_attrs.start_node = node
ConnectsToEnd(other_way, other_attrs, node) ==
    ~is_oneway(other_way) /\ other_attrs.end_node = node

\* _connect_sections, lines 108-127: the sections of one other way.
RECURSIVE ConnectOther(_, _, _, _, _, _)
ConnectOther(ws, b, name, node, other_way, other_section) ==
    IF b.err # "none" \/ other_section >= b.sections[other_way] THEN b
    ELSE LET other_name == <<other_way, other_section>>
         IN  IF ~has_node(b.graph, other_name) THEN [b EXCEPT !.err = "KeyError"]
             ELSE
             LET other_attrs == b.graph.attrs[other_name]
                 b1 == IF ConnectsToStart(other_attrs, node)
                       THEN add_edge_ignore(b, name, other_name) ELSE b
                 b2 == IF ConnectsToEnd(ws[other_way], other_attrs, node)
                       THEN add_edge_ignore(b1, name, other_name) ELSE b1
             IN  ConnectOther(ws, b2, name, node, other_way, other_section + 1)

\* DirectionalGraphBuilder._connect_sections(current_way, name, node): the
\* loop over self.nodes[node].ways, from its i-th entry on.
RECURSIVE _connect_sections(_, _, _, _, _, _, _)
_connect_sections(ws, nd, b, current_way, name, node, i) ==
    IF b.err # "none" \/ i > Len(nd[node].ways) THEN b
    ELSE LET other_way == nd[node].ways[i]
         IN  IF current_way = other_way
             THEN _connect_sections(ws, nd, b, current_way, name, node, i + 1)
             ELSE _connect_sections(ws, nd, ConnectOther(ws, b, name, node, other_way, 0),
                                    current_way, name, node, i + 1)

\* The guard of the start-side wiring in build(), line 77.
StartSideWanted(way) == ~is_oneway(way)

\* build(), lines 73-85: the sections of one way, from `section` on.
RECURSIVE ConnectOne(_, _, _, _, _)
ConnectOne(ws, nd, b, current_way, section) ==
    IF b.err # "none" \/ section >= b.sections[current_way] THEN b
    ELSE LET name == <<current_way, section>>
         IN  IF ~has_node(b.graph, name) THEN [b EXCEPT !.err = "KeyError"]
             ELSE
             LET b1 == IF StartSideWanted(ws[current_way])
                       THEN _connect_sections(ws, nd, b, current_way, name,
                                              b.graph.attrs[name].start_node, 1)
                       ELSE b
                 b2 == _connect_sections(ws, nd, b1, current_way, name,
                                         b.graph.attrs[name].end_node, 1)
             IN  ConnectOne(ws, nd, b2, current_way, section + 1)

\* DirectionalGraphBuilder.__init__ on Way objects fresh from the loader.
NewBuilder(ws) ==
    [graph |-> EmptyGraph, sections |-> [w \in DOMAIN ws |-> 0], err |-> "none", warned |-> {}]

----------------------------------------------------------------------------
(* build() as a process: one step per way of each of its two loops         *)

NoPrevious == [built |-> FALSE]

LoadIdle == xml = <<>> /\ sent = 0 /\ pipe = <<>> /\ ppc = "idle" /\ lpc = "idle"

BenchIdle ==
    /\ ntasks = 0 /\ nput = 0 /\ nstop = 0 /\ taskqueue = <<>> /\ unfinished = 0
    /\ results = 0 /\ wpc = NoFun /\ mpc = "idle"

IterIdle ==
    /\ istart = <<0, 0>> /\ igoal = <<0, 0>> /\ imax = 0 /\ lim = 0
    /\ ipc = "idle" /\ iresult = "none"

BState == [graph |-> graph, sections |-> sections, err |-> "none", warned |-> warned]

AstarIdle ==
    /\ start = <<0, 0>> /\ goal = <<0, 0>> /\ fringe = <<>> /\ closed = {}
    /\ ancestors = NoFun /\ g = NoFun /\ current = <<0, 0>> /\ todo = <<>>
    /\ apc = "idle" /\ result = "none" /\ pops = <<>> /\ replaced = FALSE

BuildInit ==
    /\ IsInput(ways, TagSets)
    /\ nodes = NodesOf(ways)
    /\ sections = [w \in DOMAIN ways |-> 0]
    /\ graph = EmptyGraph
    /\ bpc = "split"
    /\ cur = 1
    /\ warned = {}
    /\ earlier = NoPrevious
    /\ AstarIdle
    /\ LoadIdle
    /\ BenchIdle
    /\ IterIdle

Install(b, nextpc) ==
    /\ graph' = b.graph
    /\ sections' = b.sections
    /\ warned' = b.warned
    /\ bpc' = IF b.err # "none" THEN "raised" ELSE nextpc
    /\ UNCHANGED <<ways, nodes, earlier>>
    /\ UNCHANGED <<avars, lvars, kvars, ivars>>

\* build(), first loop: for way in self.ways
SplitWay ==
    /\ bpc = "split"
    /\ cur <= Len(ways)
    /\ cur' = IF cur = Len(ways) THEN 1 ELSE cur + 1
    /\ Install(SplitOne(ways, nodes, BState, cur), IF cur = Len(ways) THEN "connect" ELSE "split")

\* build(), second loop: for current_way in self.ways
ConnectWay ==
    /\ bpc = "connect"
    /\ cur <= Len(ways)
    /\ cur' = IF cur = Len(ways) THEN 1 ELSE cur + 1
    /\ Install(ConnectOne(ways, nodes, BState, cur, 0), IF cur = Len(ways) THEN "done" ELSE "connect")

BuildNext == SplitWay \/ ConnectWay

BuildSpec == BuildInit /\ [][BuildNext]_vars

\* A second DirectionalGraphBuilder(nodes, ways) on the Way objects the first
\* one was given: __init__ makes a fresh digraph, and Way.sections, which only
\* Way.__init__ sets to 0, is what the first build() left.
Rebuild ==
    /\ bpc = "done"
    /\ ~earlier.built
    /\ earlier' = [built |-> TRUE, graph |-> graph]
    /\ graph' = EmptyGraph
    /\ bpc' = "split"
    /\ cur' = 1
    /\ warned' = {}
    /\ UNCHANGED <<ways, nodes, sections>>
    /\ UNCHANGED <<avars, lvars, kvars, ivars>>

RebuildNext == SplitWay \/ ConnectWay \/ Rebuild

RebuildSpec == BuildInit /\ [][RebuildNext]_vars

\* DirectionalGraphBuilder(nodes, ways).build() run to its end.
RECURSIVE SplitFrom(_, _, _, _)
SplitFrom(ws, nd, b, w) ==
    IF w > Len(ws) THEN b ELSE SplitFrom(ws, nd, SplitOne(ws, nd, b, w), w + 1)

RECURSIVE ConnectFrom(_, _, _, _)
ConnectFrom(ws, nd, b, w) ==
    IF w > Len(ws) THEN b ELSE ConnectFrom(ws, nd, ConnectOne(ws, nd, b, w, 0), w + 1)

build(ws, nd) == ConnectFrom(ws, nd, SplitFrom(ws, nd, NewBuilder(ws), 1), 1)

----------------------------------------------------------------------------
(* heapq, as planners/astar.py uses it; positions are Python's, from 0     *)

\* (f, section) < (f', section'): Python's tuple order, the names compared as
\* the strings "<way>_<k>" are.
NameLess(a, b) == a[1] < b[1] \/ (a[1] = b[1] /\ a[2] < b[2])
EntryLess(a, b) == a[1] < b[1] \/ (a[1] = b[1] /\ NameLess(a[2], b[2]))

RECURSIVE SiftDownLoop(_, _, _, _)
SiftDownLoop(heap, startpos, pos, newitem) ==
    IF pos > startpos
    THEN LET parentpos == (pos - 1) \div 2
             parent == heap[parentpos + 1]
         IN  IF EntryLess(newitem, parent)
             THEN SiftDownLoop([heap EXCEPT ![pos + 1] = parent], startpos, parentpos, newitem)
             ELSE [heap EXCEPT ![pos + 1] = newitem]
    ELSE [heap EXCEPT ![pos + 1] = newitem]

siftdown(heap, startpos, pos) == SiftDownLoop(heap, startpos, pos, heap[pos + 1])

RECURSIVE SiftUpLoop(_, _, _)
SiftUpLoop(heap, pos, childpos) ==
    IF childpos < Len(heap)
    THEN LET rightpos == childpos + 1
             c == IF rightpos < Len(heap) /\ ~EntryLess(heap[childpos + 1], heap[rightpos + 1])
                  THEN rightpos ELSE childpos
         IN  SiftUpLoop([heap EXCEPT ![pos + 1] = heap[c + 1]], c, 2 * c + 1)
    ELSE [heap |-> heap, pos |-> pos]

siftup(heap, pos) ==
    LET newitem == heap[pos + 1]
        r == SiftUpLoop(heap, pos, 2 * pos + 1)
    IN  siftdown([r.heap EXCEPT ![r.pos + 1] = newitem], pos, r.pos)

heappush_unsifted(heap, item) == Append(heap, item)

heappush(heap, item) == siftdown(Append(heap, item), 0, Len(heap))

\* heappop(heap): [item, heap]
heappop(heap) ==
    LET lastelt == heap[Len(heap)]
        rest == SubSeq(heap, 1, Len(heap) - 1)
    IN  IF rest # <<>>
        THEN [item |-> rest[1], heap |-> siftup([rest EXCEPT ![1] = lastelt], 0)]
        ELSE [item |-> lastelt, heap |-> rest]

RECURSIVE HeapifyFrom(_, _)
HeapifyFrom(x, i) == IF i < 0 THEN x ELSE HeapifyFrom(siftup(x, i), i - 1)

heapify(x) == HeapifyFrom(x, (Len(x) \div 2) - 1)

\* list.remove(x) at the position the scan found x
RemoveAt(s, i) == SubSeq(s, 1, i - 1) \o SubSeq(s, i + 1, Len(s))

----------------------------------------------------------------------------
(* planners/common.py                                                      *)

ENTERED_START == 0
ENTERED_END == 1

EndNodes(attrs) == {attrs.start_node, attrs.end_node}

\* find_side_entered(graph, previous, current)
find_side_entered(gr, previous, cur_section) ==
    LET node_info == gr.attrs[cur_section]
        prev_node == gr.attrs[previous]
    IN  IF node_info.start_node \in EndNodes(prev_node) THEN ENTERED_START ELSE ENTERED_END

\* The test of filter_neighbours on one neighbour.
KeepNeighbour(gr, entered_side, parent, neighbour) ==
    LET node_info == gr.attrs[parent]
        neighbour_info == gr.attrs[neighbour]
    IN  \/ entered_side = ENTERED_START /\ node_info.end_node \in EndNodes(neighbour_info)
        \/ entered_side = ENTERED_END /\ node_info.start_node \in EndNodes(neighbour_info)

filter_neighbours_keeps_all(gr, entered_side, parent, neighbours) == neighbours

\* filter_neighbours(graph, entered_side, parent, neighbours)
filter_neighbours(gr, entered_side, parent, neighbours) ==
    SelectSeq(neighbours, LAMBDA n : KeepNeighbour(gr, entered_side, parent, n))

----------------------------------------------------------------------------
(* planners/astar.py                                                       *)

Min2(a, b) == IF a <= b THEN a ELSE b

\* predicted_cost(graph, current, goal)
predicted_cost(gr, cur_section, goal_section) ==
    LET cattrs == gr.attrs[cur_section]
        gattrs == gr.attrs[goal_section]
    IN  Min2(Min2(Distance(cattrs.start_point, gattrs.start_point),
                  Distance(cattrs.start_point, gattrs.end_point)),
             Min2(Distance(cattrs.end_point, gattrs.start_point),
                  Distance(cattrs.end_point, gattrs.end_point)))

Reverse(s) == [i \in 1..Len(s) |-> s[Len(s) + 1 - i]]

\* construct_path(ancestors, end): the walk ends at the first section without
\* an ancestor. A walk longer than the ancestor map has entries is in a cycle
\* and never ends: <<>> stands for that.
RECURSIVE WalkAncestors(_, _, _)
WalkAncestors(anc, last, path) ==
    IF last \notin DOMAIN anc THEN Reverse(path)
    ELSE IF Len(path) > Cardinality(DOMAIN anc) THEN <<>>
    ELSE WalkAncestors(anc, anc[last], Append(path, anc[last]))

construct_path_unreversed(anc, end) == Reverse(WalkAncestors(anc, end, <<end>>))

construct_path_without_end(anc, end) ==
    LET path == WalkAncestors(anc, end, <<end>>) IN SubSeq(path, 1, Len(path) - 1)

construct_path(anc, end) == WalkAncestors(anc, end, <<end>>)

\* Astar, lines 59-60: the first fringe entry of `neighbour` that the scan
\* takes for an improvement, 0 when the loop ends without break.
ScanTest(new_g, cost) == new_g < cost

ScanFringe(fr, neighbour, new_g) ==
    IF \E i \in 1..Len(fr) : fr[i][2] = neighbour /\ ScanTest(new_g, fr[i][1])
    THEN CHOOSE i \in 1..Len(fr) :
            /\ fr[i][2] = neighbour /\ ScanTest(new_g, fr[i][1])
            /\ \A j \in 1..(i - 1) : ~(fr[j][2] = neighbour /\ ScanTest(new_g, fr[j][1]))
    ELSE 0

\* What Astar reads of a section: start_node and end_node (planners/common.py),
\* length, and the attributes start_point and end_point (spec.md, section 3:
\* the first and the last point of the path), which predicted_cost reads.
PlannerGraph(gr) ==
    [attrs |-> [n \in DOMAIN gr.attrs |->
                    [start_node |-> gr.attrs[n].start_node,
                     end_node |-> gr.attrs[n].end_node,
                     length |-> gr.attrs[n].length,
                     start_point |-> gr.attrs[n].path[1],
                     end_point |-> gr.attrs[n].path[Len(gr.attrs[n].path)]]],
     nbrs |-> gr.nbrs]

\* The graphs Astar is run on: those the builder makes of the inputs. A
\* roundabout tag and a oneway tag make the same graph.
AstarTagSets == {NoTags, OnewayTags}
BuiltGraph(ws) == PlannerGraph(build(ws, NodesOf(ws)).graph)

BuildIdle ==
    /\ ways = <<>> /\ nodes = NoFun /\ sections = NoFun
    /\ bpc = "idle" /\ cur = 0 /\ warned = {} /\ earlier = NoPrevious

NoResult == [kind |-> "none"]

\* Astar, lines 25-31
AstarInit ==
    /\ BuildIdle
    /\ LoadIdle
    /\ BenchIdle
    /\ IterIdle
    /\ \E n \in 2..MaxRefs : \E s \in Canon(n) : \E p \in Parts(n) :
        \E t \in [1..Len(p) -> AstarTagSets] :
            graph = BuiltGraph(WaysOf(s, p, t))
    /\ start \in DOMAIN graph.attrs
    /\ goal \in DOMAIN graph.attrs
    /\ fringe = heappush(<<>>, <<predicted_cost(graph, start, goal), start>>)
    /\ closed = {}
    /\ ancestors = NoFun
    /\ g = (start :> 0)
    /\ current = start
    /\ todo = <<>>
    /\ apc = "pop"
    /\ result = NoResult
    /\ pops = <<>>
    /\ replaced = FALSE

Popped == heappop(fringe).item[2]

\* Astar, lines 34-43: the goal is popped. with_data is read here only.
ReturnPath ==
    /\ apc = "pop"
    /\ fringe # <<>>
    /\ Popped = goal
    /\ \E with_data \in BOOLEAN :
        result' = [kind |-> "path", with_data |-> with_data,
                   path |-> construct_path(ancestors, Popped),
                   open_set |-> IF with_data
                                THEN [i \in 1..Len(heappop(fringe).heap) |-> heappop(fringe).heap[i][2]]
                                ELSE <<>>,
                   closed |-> IF with_data THEN closed ELSE {}]
    /\ fringe' = heappop(fringe).heap
    /\ current' = Popped
    /\ pops' = Append(pops, Popped)
    /\ apc' = "returned"
    /\ UNCHANGED <<start, goal, closed, ancestors, g, todo, replaced>>
    /\ UNCHANGED <<bvars, lvars, kvars, ivars>>

\* Astar, lines 46-50: the neighbours the for loop of line 52 visits;
\* ancestors[current] of a section without an ancestor is a KeyError.
NeighboursUnfiltered(gr, anc, st, cur_section) ==
    [err |-> "none", list |-> gr.nbrs[cur_section]]

NeighboursAlwaysFiltered(gr, anc, st, cur_section) ==
    IF cur_section \notin DOMAIN anc THEN [err |-> "KeyError", list |-> <<>>]
    ELSE [err |-> "none",
          list |-> filter_neighbours(gr, find_side_entered(gr, anc[cur_section], cur_section),
                                     cur_section, gr.nbrs[cur_section])]

Neighbours(gr, anc, st, cur_section) ==
    IF cur_section # st
    THEN IF cur_section \notin DOMAIN anc THEN [err |-> "KeyError", list |-> <<>>]
         ELSE [err |-> "none",
               list |-> filter_neighbours(gr, find_side_entered(gr, anc[cur_section], cur_section),
                                          cur_section, gr.nbrs[cur_section])]
    ELSE [err |-> "none", list |-> gr.nbrs[cur_section]]

\* Astar, lines 34-50: another section is popped and expanded.
Expand ==
    /\ apc = "pop"
    /\ fringe # <<>>
    /\ Popped # goal
    /\ fringe' = heappop(fringe).heap
    /\ current' = Popped
    /\ pops' = Append(pops, Popped)
    /\ closed' = closed \cup {Popped}
    /\ LET neighbours == Neighbours(graph, ancestors, start, Popped)
       IN  /\ todo' = neighbours.list
           /\ apc' = IF neighbours.err # "none" THEN "raised"
                     ELSE IF neighbours.list = <<>> THEN "pop" ELSE "relax"
    /\ UNCHANGED <<start, goal, ancestors, g, result, replaced>>
    /\ UNCHANGED <<bvars, lvars, kvars, ivars>>

new_g_without_length(gr, gmap, cur_section) == gmap[cur_section]

\* Astar, line 57: new_g = g[current] + graph.node_attributes(current)['length']
tentative_g(gr, gmap, cur_section) == gmap[cur_section] + gr.attrs[cur_section].length

never_expanded(closed_set, neighbour) == FALSE

\* Astar, line 54: if neighbour in closed
already_expanded(closed_set, neighbour) == neighbour \in closed_set

\* Astar, lines 52-75: one iteration of the for loop over the neighbours.
Relax ==
    /\ apc = "relax"
    /\ todo # <<>>
    /\ LET neighbour == Head(todo)
           new_g == tentative_g(graph, g, current)
           i == ScanFringe(fringe, neighbour, new_g)
           f == new_g + predicted_cost(graph, neighbour, goal)
       IN  IF already_expanded(closed, neighbour)
           THEN UNCHANGED <<fringe, ancestors, g, replaced>>
           ELSE /\ ancestors' = (neighbour :> current) @@ ancestors
                /\ g' = (neighbour :> new_g) @@ g
                /\ fringe' = IF i # 0
                             THEN heappush(heapify(RemoveAt(fringe, i)), <<f, neighbour>>)
                             ELSE heappush(fringe, <<f, neighbour>>)
                /\ replaced' = (replaced \/ i # 0)
    /\ todo' = Tail(todo)
    /\ apc' = IF Tail(todo) = <<>> THEN "pop" ELSE "relax"
    /\ UNCHANGED <<start, goal, closed, current, result, pops>>
    /\ UNCHANGED <<bvars, lvars, kvars, ivars>>

\* Astar, line 76: the fringe is empty; the function ends without a return
\* statement and so returns None.
FallThrough ==
    /\ apc = "pop"
    /\ fringe = <<>>
    /\ \E with_data \in BOOLEAN : result' = [kind |-> "None", with_data |-> with_data]
    /\ apc' = "returned"
    /\ UNCHANGED <<start, goal, fringe, closed, ancestors, g, current, todo, pops, replaced>>
    /\ UNCHANGED <<bvars, lvars, kvars, ivars>>

\* Astar, lines 25-31, on the graphs of ways that run between few nodes:
\* several ways, or one way several times, along the same stretch.
DenseRefs == 7
DenseNodes == 2

AstarDenseInit ==
    /\ BuildIdle
    /\ LoadIdle
    /\ BenchIdle
    /\ IterIdle
    /\ \E n \in 2..DenseRefs : \E s \in {c \in Canon(n) : Range(c) \subseteq 1..DenseNodes} :
        \E p \in Parts(n) : \E t \in [1..Len(p) -> AstarTagSets] :
            graph = BuiltGraph(WaysOf(s, p, t))
    /\ start \in DOMAIN graph.attrs
    /\ goal \in DOMAIN graph.attrs
    /\ fringe = heappush(<<>>, <<predicted_cost(graph, start, goal), start>>)
    /\ closed = {}
    /\ ancestors = NoFun
    /\ g = (start :> 0)
    /\ current = start
    /\ todo = <<>>
    /\ apc = "pop"
    /\ result = NoResult
    /\ pops = <<>>
    /\ replaced = FALSE

AstarNext == ReturnPath \/ Expand \/ Relax \/ FallThrough

AstarSpec == AstarInit /\ [][AstarNext]_vars

\* A call of Astar that is running goes on running: the loop is plain
\* sequential code, nothing it waits for.
AstarFairSpec == AstarInit /\ [][AstarNext]_vars /\ WF_vars(AstarNext)

AstarDenseSpec == AstarDenseInit /\ [][AstarNext]_vars

----------------------------------------------------------------------------
(* osmreader/multireader.py                                                *)

MaxWayElems == 2

\* What _xml_parser sends: the node and way elements of the file, then None.
None == [tag |-> "None"]
NodeElem(id) == [tag |-> "node", id |-> id]
WayElem(id, nd, tags) == [tag |-> "way", id |-> id, nd |-> nd, tags |-> tags]

\* The spellings the loader is to read as True and as False.
Truthy == {"t", "true", "y", "yes"}
Falsy == {"f", "false", "n", "no"}

\* The k/v pairs of the tag children of a way element.
RawTagSets ==
    {NoFun, "highway" :> "residential", "highway" :> "cycleway", "oneway" :> "yes",
     ("highway" :> "residential") @@ ("junction" :> "roundabout")}
    \cup {("highway" :> "residential") @@ ("oneway" :> v) :
            v \in Truthy \cup Falsy \cup {"1", "-1"}}
    \cup {("highway" :> "residential") @@ ("access" :> v) :
            v \in {"no", "agricultural", "delivery", "false"}}
    \cup {("highway" :> "residential") @@ (k :> "no") : k \in {"motorcar", "motor_vehicle"}}

\* The nd references of a way element, and the node elements of a file.
NdLists == {<<1, 2>>, <<1, 2, 1>>}
NodeElemLists == {<<1, 2>>, <<1>>}

\* value.lower in (...): value.lower is the bound method, which is not
\* called, and a method is equal to no string.
LowerIn(value, strs) == FALSE

\* str.isdigit() and int(), float() on the values of the files.
IntLiteral == ("0" :> 0) @@ ("1" :> 1)
FloatLiteral == IntLiteral @@ ("-1" :> (0 - 1))

\* _parse_tags, lines 246-261: the value a tag is stored with.
CoerceTag(value) ==
    IF LowerIn(value, {"t", "true", "y", "yes"}) THEN PyBool(TRUE)
    ELSE IF LowerIn(value, {"f", "false", "n", "no"}) THEN PyBool(FALSE)
    ELSE IF value \in DOMAIN IntLiteral THEN PyInt(IntLiteral[value])
    ELSE IF value \in DOMAIN FloatLiteral THEN PyFloat(FloatLiteral[value])
    ELSE PyStr(value)

\* MultiReader._parse_tags(elem)
_parse_tags(elem) == [key \in DOMAIN elem.tags |-> CoerceTag(elem.tags[key])]

\* MultiReader._parse_node(elem): Node(id, lat, lon), node n at latitude n.
_parse_node(elem) == [lat |-> elem.id, lon |-> 0, ways |-> <<>>]

\* MultiReader._parse_way(elem); unused stands for UnusedWayException.
_parse_way(elem) ==
    LET tags == _parse_tags(elem)
    IN  IF "highway" \notin DOMAIN tags THEN [unused |-> TRUE]
        ELSE [unused |-> FALSE, way |-> [nodes |-> elem.nd, tags |-> tags]]

LoadInit ==
    /\ \/ /\ \E N \in NodeElemLists : \E k \in 1..MaxWayElems :
                \E ids \in [1..k -> 1..k] : \E nds \in [1..k -> NdLists] :
                \E tags \in [1..k -> RawTagSets] :
                    /\ \A i \in 1..k : ids[i] \in {1, i}
                    /\ xml = [i \in 1..Len(N) |-> NodeElem(N[i])]
                             \o [i \in 1..k |-> WayElem(ids[i], nds[i], tags[i])]
          /\ ppc = "opening"
       \/ /\ xml = <<>>
          /\ ppc = "nofile"
    /\ sent = 0
    /\ pipe = <<>>
    /\ lpc = "loading"
    /\ BuildIdle
    /\ graph = EmptyGraph
    /\ AstarIdle
    /\ BenchIdle
    /\ IterIdle

\* _xml_parser, lines 41 and 47: ET.iterparse has opened the file.
ParserOpens ==
    /\ ppc = "opening"
    /\ ppc' = "parsing"
    /\ UNCHANGED <<xml, sent, pipe, lpc>>
    /\ UNCHANGED <<bvars, avars, kvars, ivars>>

\* _xml_parser, lines 42-46: ET.iterparse raised (no such file); None is
\* sent, the exception is raised again and ends the subprocess.
OpenFails ==
    /\ ppc = "nofile"
    /\ pipe' = Append(pipe, None)
    /\ ppc' = "exited"
    /\ UNCHANGED <<xml, sent, lpc>>
    /\ UNCHANGED <<bvars, avars, kvars, ivars>>

\* _xml_parser, lines 47-55: next(it), root.attrib['version'] or the for
\* loop raises (the file is empty or malformed from some point on, or its
\* root has no version). The else branch of the try statement is outside
\* its except clause: the exception ends the subprocess.
ParseFails ==
    /\ ppc = "parsing"
    /\ ppc' = "failed"
    /\ UNCHANGED <<xml, sent, pipe, lpc>>
    /\ UNCHANGED <<bvars, avars, kvars, ivars>>

\* _xml_parser, lines 51-54: conn.send(elem)
ParserSend ==
    /\ ppc = "parsing"
    /\ sent < Len(xml)
    /\ pipe' = Append(pipe, xml[sent + 1])
    /\ sent' = sent + 1
    /\ UNCHANGED <<xml, ppc, lpc>>
    /\ UNCHANGED <<bvars, avars, kvars, ivars>>

\* _xml_parser, lines 57-58: conn.send(None), and the subprocess ends.
ParserExit ==
    /\ ppc = "parsing"
    /\ sent = Len(xml)
    /\ pipe' = Append(pipe, None)
    /\ ppc' = "exited"
    /\ UNCHANGED <<xml, sent, lpc>>
    /\ UNCHANGED <<bvars, avars, kvars, ivars>>

\* load, lines 128-155: one element is received and handled.
Received(tag) ==
    /\ lpc = "loading"
    /\ pipe # <<>>
    /\ Head(pipe).tag = tag
    /\ pipe' = Tail(pipe)
    /\ UNCHANGED <<xml, sent, ppc>>
    /\ UNCHANGED <<graph, bpc, cur, warned, earlier>>
    /\ UNCHANGED <<avars, kvars, ivars>>

HandleNode ==
    /\ Received("node")
    /\ nodes' = (Head(pipe).id :> _parse_node(Head(pipe))) @@ nodes
    /\ UNCHANGED <<ways, sections, lpc>>

HandleWay ==
    /\ Received("way")
    /\ LET w == _parse_way(Head(pipe))
       IN  IF w.unused THEN UNCHANGED <<ways, sections>>
           ELSE /\ ways' = (Head(pipe).id :> w.way) @@ ways
                /\ sections' = (Head(pipe).id :> 0) @@ sections
    /\ UNCHANGED <<nodes, lpc>>

\* load, lines 133-134 and 157: None ends the main loop.
HandleNone ==
    /\ Received("None")
    /\ lpc' = "backrefs"
    /\ UNCHANGED <<ways, nodes, sections>>

\* The keys of self.ways in the order a dict keeps them: that of the first
\* insertion of each, after the first i elements of the file were handled.
RECURSIVE WayOrder(_)
WayOrder(i) ==
    IF i = 0 THEN <<>>
    ELSE LET before == WayOrder(i - 1)
         IN  IF xml[i].tag = "way" /\ ~_parse_way(xml[i]).unused
                /\ xml[i].id \notin Range(before)
             THEN Append(before, xml[i].id)
             ELSE before

RECURSIVE FirstVisits(_, _)
FirstVisits(refs, i) ==
    IF i = 0 THEN <<>>
    ELSE IF refs[i] \in Range(FirstVisits(refs, i - 1)) THEN FirstVisits(refs, i - 1)
    ELSE Append(FirstVisits(refs, i - 1), refs[i])

WayNodeRefsOnce(way) == FirstVisits(way.nodes, Len(way.nodes))

\* load, line 167: for node in self.ways[way].nodes
WayNodeRefs(way) == way.nodes

\* load, lines 167-168; st = [nodes, err], err for the KeyError of a node
\* that is not in self.nodes.
RECURSIVE AppendRefs(_, _, _, _)
AppendRefs(st, way, refs, i) ==
    IF st.err \/ i > Len(refs) THEN st
    ELSE IF refs[i] \notin DOMAIN st.nodes THEN [st EXCEPT !.err = TRUE]
    ELSE AppendRefs([st EXCEPT !.nodes[refs[i]].ways = Append(@, way)], way, refs, i + 1)

\* load, lines 166-168: for way in self.ways
RECURSIVE AppendAllRefs(_, _, _)
AppendAllRefs(st, order, k) ==
    IF st.err \/ k > Len(order) THEN st
    ELSE AppendAllRefs(AppendRefs(st, order[k], WayNodeRefs(ways[order[k]]), 1), order, k + 1)

\* load, lines 157-168: the parser is joined, the back-references are added.
AddBackRefs ==
    /\ lpc = "backrefs"
    /\ ppc \in {"exited", "failed"}
    /\ LET st == AppendAllRefs([nodes |-> nodes, err |-> FALSE], WayOrder(sent), 1)
       IN  /\ nodes' = st.nodes
           /\ lpc' = IF st.err THEN "raised" ELSE "loaded"
    /\ UNCHANGED <<xml, sent, pipe, ppc>>
    /\ UNCHANGED <<ways, sections, graph, bpc, cur, warned, earlier>>
    /\ UNCHANGED <<avars, kvars, ivars>>

LoadNext ==
    \/ ParserOpens \/ OpenFails \/ ParseFails \/ ParserSend \/ ParserExit
    \/ HandleNode \/ HandleWay \/ HandleNone \/ AddBackRefs

LoadSpec == LoadInit /\ [][LoadNext]_vars

----------------------------------------------------------------------------
(* benchmark.py: Astar_benchmark and its Astar_worker subprocesses         *)

\* process_count = max(2, mp.cpu_count() - 2), and how many queries the
\* benchmark queues.
NWorkers == 2
MaxTasks == 3

Workers == 1..NWorkers

\* taskqueue.put(None): the stop signal.
StopSignal == [stop |-> TRUE]
Query(j) == [stop |-> FALSE, id |-> j]

\* What a call planners.Astar(graph, start, end, True) ends with: the tuple
\* (path, open_set, closed), None after the loop fell through, or the
\* KeyError of predicted_cost on sections without start_point.
AstarOutcomes == {"path", "None", "KeyError"}

\* Astar_benchmark, lines 90-101: the queues are made, the workers started.
BenchInit ==
    /\ ntasks \in 1..MaxTasks
    /\ nput = 0
    /\ nstop = 0
    /\ taskqueue = <<>>
    /\ unfinished = 0
    /\ results = 0
    /\ wpc = [w \in Workers |-> "get"]
    /\ mpc = "put"
    /\ BuildIdle
    /\ graph = EmptyGraph
    /\ AstarIdle
    /\ LoadIdle
    /\ IterIdle

OthersUnchanged == UNCHANGED <<bvars, avars, lvars, ivars>>

\* Astar_benchmark, lines 107-111: taskqueue.put((j, start, end))
PutTask ==
    /\ mpc = "put"
    /\ nput < ntasks
    /\ taskqueue' = Append(taskqueue, Query(nput))
    /\ unfinished' = unfinished + 1
    /\ nput' = nput + 1
    /\ UNCHANGED <<ntasks, nstop, results, wpc, mpc>>
    /\ OthersUnchanged

\* Astar_benchmark, lines 112-113: taskqueue.put(None), process_count times
PutStop ==
    /\ \/ mpc = "put" /\ nput = ntasks
       \/ mpc = "stop"
    /\ taskqueue' = Append(taskqueue, StopSignal)
    /\ unfinished' = unfinished + 1
    /\ nstop' = nstop + 1
    /\ mpc' = IF nstop + 1 = NWorkers THEN "wait" ELSE "stop"
    /\ UNCHANGED <<ntasks, nput, results, wpc>>
    /\ OthersUnchanged

\* Astar_benchmark, lines 115-118: while taskqueue.qsize() > process_count * 2
WaitQueue ==
    /\ mpc = "wait"
    /\ IF Len(taskqueue) > NWorkers * 2
       THEN results' = 0 /\ mpc' = "wait"
       ELSE results' = results /\ mpc' = "join"
    /\ UNCHANGED <<ntasks, nput, nstop, taskqueue, unfinished, wpc>>
    /\ OthersUnchanged

\* Astar_benchmark, line 121: taskqueue.join() returns once every item put
\* has been acknowledged with task_done.
JoinQueue ==
    /\ mpc = "join"
    /\ unfinished = 0
    /\ mpc' = "joinprocs"
    /\ UNCHANGED <<ntasks, nput, nstop, taskqueue, unfinished, results, wpc>>
    /\ OthersUnchanged

\* Astar_benchmark, lines 123-126: p.join() for every worker (a worker that
\* died of an exception has ended too), then the results are collected.
JoinWorkers ==
    /\ mpc = "joinprocs"
    /\ \A w \in Workers : wpc[w] \in {"exited", "died"}
    /\ mpc' = "done"
    /\ results' = 0
    /\ UNCHANGED <<ntasks, nput, nstop, taskqueue, unfinished, wpc>>
    /\ OthersUnchanged

\* Astar_worker, line 41: iter(taskqueue.get, None)
GetTask(w) ==
    /\ wpc[w] = "get"
    /\ taskqueue # <<>>
    /\ taskqueue' = Tail(taskqueue)
    /\ wpc' = [wpc EXCEPT ![w] = IF Head(taskqueue).stop THEN "stop" ELSE "run"]
    /\ UNCHANGED <<ntasks, nput, nstop, unfinished, results, mpc>>
    /\ OthersUnchanged

\* The outcomes of Astar that line 44 can unpack into path, open_set,
\* closed_set; any other ends the worker with an exception.
Unpackable == {"path"}

\* Astar_worker, lines 43-44: the call of Astar and the unpacking of what it
\* returns.
RunAstar(w) ==
    /\ wpc[w] = "run"
    /\ \E outcome \in AstarOutcomes :
          wpc' = [wpc EXCEPT ![w] = IF outcome \in Unpackable THEN "report" ELSE "died"]
    /\ UNCHANGED <<ntasks, nput, nstop, taskqueue, unfinished, results, mpc>>
    /\ OthersUnchanged

\* Astar_worker, lines 45-51: resultqueue.put(data); taskqueue.task_done()
Report(w) ==
    /\ wpc[w] = "report"
    /\ results' = results + 1
    /\ unfinished' = unfinished - 1
    /\ wpc' = [wpc EXCEPT ![w] = "get"]
    /\ UNCHANGED <<ntasks, nput, nstop, taskqueue, mpc>>
    /\ OthersUnchanged

\* Astar_worker, lines 52-54: the stop signal is acknowledged, the worker ends.
StopWorker(w) ==
    /\ wpc[w] = "stop"
    /\ unfinished' = unfinished - 1
    /\ wpc' = [wpc EXCEPT ![w] = "exited"]
    /\ UNCHANGED <<ntasks, nput, nstop, taskqueue, results, mpc>>
    /\ OthersUnchanged

MainStep == PutTask \/ PutStop \/ WaitQueue \/ JoinQueue \/ JoinWorkers

WorkerStep(w) == GetTask(w) \/ RunAstar(w) \/ Report(w) \/ StopWorker(w)

BenchNext == MainStep \/ \E w \in Workers : WorkerStep(w)

BenchSpec == BenchInit /\ [][BenchNext]_vars

\* The main process and every worker are processes of their own, each
\* scheduled as long as it can take a step.
BenchFairSpec ==
    BenchInit /\ [][BenchNext]_vars /\ WF_vars(MainStep) /\ \A w \in Workers : WF_vars(WorkerStep(w))

----------------------------------------------------------------------------
(* planners/iterdeep.py                                                    *)

MaxDepth == 3

\* _iterdeep_rec passes path[-1], the name of a section, as the entered_side
\* of filter_neighbours, which compares it with ENTERED_START and ENTERED_END:
\* a str is equal to neither int. What these comparisons see of a name.
NameAsSide(name) == ENTERED_END + 1

NotFound == [kind |-> "None"]

RECURSIVE _iterdeep_rec(_, _, _, _, _)
RECURSIVE ExpandNeighbours(_, _, _, _, _, _, _)

\* _iterdeep_rec, lines 74-81: the for loop, at the i-th neighbour
ExpandNeighbours(gr, current_node, goal_node, max_depth, path, neighbours, i) ==
    IF i > Len(neighbours) THEN NotFound
    ELSE IF neighbours[i] \in Range(path)
    THEN ExpandNeighbours(gr, current_node, goal_node, max_depth, path, neighbours, i + 1)
    ELSE LET ret == _iterdeep_rec(gr, neighbours[i], goal_node, max_depth,
                                  Append(path, current_node))
         IN  IF ret.kind # "None" THEN ret
             ELSE ExpandNeighbours(gr, current_node, goal_node, max_depth, path, neighbours, i + 1)

\* _iterdeep_rec(graph, current_node, goal_node, max_depth, path)
_iterdeep_rec(gr, current_node, goal_node, max_depth, path) ==
    IF Len(path) >= max_depth THEN NotFound
    ELSE LET neighbours ==
                 IF Len(path) > 0
                 THEN filter_neighbours(gr, NameAsSide(path[Len(path)]), current_node,
                                        gr.nbrs[current_node])
                 ELSE gr.nbrs[current_node]
         IN  IF goal_node \in Range(neighbours)
             THEN [kind |-> "path", path |-> path \o <<current_node, goal_node>>]
             ELSE ExpandNeighbours(gr, current_node, goal_node, max_depth, path, neighbours, 1)

\* iterative_deepening, lines 25-30, min_depth left at its default of 1; the
\* graph is one the builder made.
IterInit ==
    /\ BuildIdle
    /\ AstarIdle
    /\ LoadIdle
    /\ BenchIdle
    /\ \E n \in 2..MaxRefs : \E s \in Canon(n) : \E p \in Parts(n) :
        \E t \in [1..Len(p) -> AstarTagSets] :
            graph = build(WaysOf(s, p, t), NodesOf(WaysOf(s, p, t))).graph
    /\ istart \in DOMAIN graph.attrs
    /\ igoal \in DOMAIN graph.attrs
    /\ imax \in 0..MaxDepth
    /\ lim = 1
    /\ ipc = "loop"
    /\ iresult = NoResult

\* iterative_deepening, lines 30-38: one round of the for loop
TryLimit ==
    /\ ipc = "loop"
    /\ lim <= imax
    /\ LET path == _iterdeep_rec(graph, istart, igoal, lim, <<>>)
       IN  IF path.kind # "None"
           THEN iresult' = path /\ ipc' = "returned" /\ lim' = lim
           ELSE iresult' = iresult /\ ipc' = "loop" /\ lim' = lim + 1
    /\ UNCHANGED <<istart, igoal, imax>>
    /\ UNCHANGED <<bvars, avars, lvars, kvars>>

\* iterative_deepening, line 38: the for loop has ended; the function ends
\* without a return statement and so returns None.
LimitsExhausted ==
    /\ ipc = "loop"
    /\ lim > imax
    /\ iresult' = NotFound
    /\ ipc' = "returned"
    /\ UNCHANGED <<istart, igoal, imax, lim>>
    /\ UNCHANGED <<bvars, avars, lvars, kvars>>

IterNext == TryLimit \/ LimitsExhausted

IterSpec == IterInit /\ [][IterNext]_vars

----------------------------------------------------------------------------
(* Routes: what the claims about Astar compare its result with             *)

\* p, c, n follow each other in a route: c is left through the end opposite
\* to the one it was entered by from p.
LeftOpposite(gr, p, c, n) ==
    IF gr.attrs[c].start_node \in EndNodes(gr.attrs[p])
    THEN gr.attrs[c].end_node \in EndNodes(gr.attrs[n])
    ELSE gr.attrs[c].start_node \in EndNodes(gr.attrs[n])

IsRoute(gr, r) ==
    /\ Len(r) >= 1
    /\ \A i \in 1..(Len(r) - 1) : has_edge(gr, r[i], r[i + 1])
    /\ \A i \in 2..(Len(r) - 1) : LeftOpposite(gr, r[i - 1], r[i], r[i + 1])

RECURSIVE RouteLength(_, _)
RouteLength(gr, r) ==
    IF r = <<>> THEN 0 ELSE gr.attrs[Head(r)].length + RouteLength(gr, Tail(r))

\* A route is searched as a walk over the pairs <<predecessor, section>>: what
\* may follow a section depends on its predecessor alone. The start has no
\* predecessor: <<NoSection, st>> stands for it.
NoSection == <<0, 0>>

Inf == 0 - 1

SetMin(S) == CHOOSE c \in S : \A x \in S : c <= x

Steps(gr, st) == {<<NoSection, st>>} \cup Edges(gr)

\* best is a set of <<step, cost>>: the cheapest route found that ends with
\* the step. The costs of the routes that end with step e, one section
\* longer than those of best or among them.
CostsInto(gr, best, e) ==
    {p[2] : p \in {q \in best : q[1] = e}}
    \cup {p[2] + gr.attrs[e[2]].length :
            p \in {q \in best : /\ e[1] # NoSection
                                /\ q[1][2] = e[1]
                                /\ (q[1][1] = NoSection
                                    \/ LeftOpposite(gr, q[1][1], q[1][2], e[2]))}}

RelaxRoutes(gr, st, best) ==
    {<<e, SetMin(CostsInto(gr, best, e))>> :
        e \in {x \in Steps(gr, st) : CostsInto(gr, best, x) # {}}}

RECURSIVE CheapestFrom(_, _, _, _)
CheapestFrom(gr, st, best, k) ==
    IF k = 0 THEN best ELSE CheapestFrom(gr, st, RelaxRoutes(gr, st, best), k - 1)

\* The length of a shortest route from st to gl, Inf when there is none.
ShortestRoute(gr, st, gl) ==
    LET first == {<<<<NoSection, st>>, gr.attrs[st].length>>}
        best == CheapestFrom(gr, st, first, Cardinality(Steps(gr, st)))
        ends == {p[2] : p \in {q \in best : q[1][2] = gl}}
    IN  IF ends = {} THEN Inf ELSE SetMin(ends)

RouteExists(gr, st, gl) == ShortestRoute(gr, st, gl) # Inf

ReturnedPath == apc = "returned" /\ result.kind = "path"
ReturnedNone == apc = "returned" /\ result.kind = "None"

----------------------------------------------------------------------------
(* Claims about Astar                                                      *)

\* C1: whenever Astar returns a path, no route from start to goal is shorter
\* than it (a route's length is the summed length of its sections).
C1_ShortestPath ==
    ReturnedPath => RouteLength(graph, result.path) <= ShortestRoute(graph, start, goal)

\* C2: a returned path begins with start, ends with goal, and each
\* consecutive pair of it is a directed edge of the graph.
C2_PathFollowsEdges ==
    ReturnedPath =>
        /\ Len(result.path) >= 1
        /\ result.path[1] = start
        /\ result.path[Len(result.path)] = goal
        /\ \A i \in 1..(Len(result.path) - 1) :
              has_edge(graph, result.path[i], result.path[i + 1])

C2_Witness == ReturnedPath /\ Len(result.path) >= 3

\* C3: Astar returns no path only when no route from start to goal exists.
C3_NoPathOnlyIfUnreachable ==
    ReturnedNone => ~RouteExists(graph, start, goal)

\* C4: every call of Astar ends by returning (a call that raised never
\* returns), and when the goal was never popped, which is when the fringe
\* has emptied, what it returns is None, whatever with_data is.
C4_TerminatesWithNone ==
    <>(apc = "returned" /\ (goal \notin Range(pops) => result.kind = "None"))

C4_Witness == ReturnedNone /\ result.with_data /\ Len(pops) >= 3

\* C5: Astar(graph, x, x) returns the path [x], and g[x] = 0.
C5_StartIsGoal ==
    (apc = "returned" /\ start = goal) =>
        /\ result.kind = "path"
        /\ result.path = <<start>>
        /\ g[start] = 0

C5_Witness == apc = "returned" /\ start = goal /\ graph.nbrs[start] # <<>>

\* C6: in a returned path every interior section is left through the end
\* opposite to its entry.
C6_InteriorLeftOpposite ==
    ReturnedPath =>
        \A i \in 2..(Len(result.path) - 1) :
            LeftOpposite(graph, result.path[i - 1], result.path[i], result.path[i + 1])

C6_Witness ==
    /\ ReturnedPath
    /\ \E i \in 2..(Len(result.path) - 1) :
          \E n \in Range(graph.nbrs[result.path[i]]) :
              /\ n \notin closed
              /\ ~LeftOpposite(graph, result.path[i - 1], result.path[i], n)

----------------------------------------------------------------------------
(* Claims about build()                                                    *)

Built == bpc = "done"

IsClosed(way) == way.nodes[1] = way.nodes[Len(way.nodes)]

IsRoundabout(way) ==
    "junction" \in DOMAIN way.tags /\ PyEq(way.tags["junction"], PyStr("roundabout"))

\* The nodes a vehicle may leave section S by.
ExitNodes(S) ==
    {graph.attrs[S].end_node}
    \cup (IF is_oneway(ways[S[1]]) THEN {} ELSE {graph.attrs[S].start_node})

\* Section T may be begun from node v in a direction its way allows.
MayBegin(T, v) ==
    \/ graph.attrs[T].start_node = v
    \/ graph.attrs[T].end_node = v /\ ~is_oneway(ways[T[1]])

\* The edges of the graph between the sections of way w.
OwnEdges(w) == {e \in Edges(graph) : e[1][1] = w /\ e[2][1] = w}

\* C7: after build(), for sections S and T of different ways, the edge S -> T
\* exists if and only if T may be begun from an exit node of S.
C7_InterWayEdges ==
    Built =>
        \A S \in DOMAIN graph.attrs : \A T \in DOMAIN graph.attrs :
            S[1] # T[1] =>
                (has_edge(graph, S, T) <=> \E v \in ExitNodes(S) : MayBegin(T, v))

C7_Witness ==
    /\ Built
    /\ \E S \in DOMAIN graph.attrs : \E T \in DOMAIN graph.attrs :
          /\ S[1] # T[1]
          /\ has_edge(graph, S, T)
          /\ ~has_edge(graph, T, S)
          /\ EndNodes(graph.attrs[S]) \cap EndNodes(graph.attrs[T]) # {}

\* C8: for every one-way way and every pair of consecutive sections W_i,
\* W_(i+1) of it, the built graph has the edge W_i -> W_(i+1) and has no edge
\* W_(i+1) -> W_i.
C8_OnewayForwardOnly ==
    Built =>
        \A w \in DOMAIN ways : is_oneway(ways[w]) =>
            \A i \in 0..(sections[w] - 2) :
                /\ has_edge(graph, <<w, i>>, <<w, i + 1>>)
                /\ ~has_edge(graph, <<w, i + 1>>, <<w, i>>)

\* C8, amended: for every one-way way and every pair of consecutive sections
\* W_i, W_(i+1) of it, the built graph has the edge W_i -> W_(i+1), and it
\* has the edge W_(i+1) -> W_i only as the closure edge of a closed way of
\* exactly two sections.
C8_OnewayForwardOnlyButClosure ==
    Built =>
        \A w \in DOMAIN ways : is_oneway(ways[w]) =>
            \A i \in 0..(sections[w] - 2) :
                /\ has_edge(graph, <<w, i>>, <<w, i + 1>>)
                /\ has_edge(graph, <<w, i + 1>>, <<w, i>>)
                      => (IsClosed(ways[w]) /\ sections[w] = 2)

C8_Witness ==
    /\ Built
    /\ \E w \in DOMAIN ways :
          /\ is_oneway(ways[w])
          /\ ~IsClosed(ways[w])
          /\ sections[w] >= 3
          /\ \E v \in DOMAIN ways : v # w /\ ~is_oneway(ways[v])

\* C9: for a closed way that is no roundabout, build() adds no closing edge
\* from the way's last section to its first: no self-loop when the way has
\* one section, no edge last -> first when it has three or more.
C9_NoClosingEdgeUnlessRoundabout ==
    Built =>
        \A w \in DOMAIN ways :
            (IsClosed(ways[w]) /\ ~IsRoundabout(ways[w])) =>
                /\ sections[w] = 1 => ~has_edge(graph, <<w, 0>>, <<w, 0>>)
                /\ sections[w] >= 3 => ~has_edge(graph, <<w, sections[w] - 1>>, <<w, 0>>)

LastSection(w) == <<w, sections[w] - 1>>

\* C11: after build(), every way has at least one section, its section 0
\* starts at the way's first node, its last section ends at the way's last
\* node, and section i ends at the node where section i+1 starts.
C11_SectionsTileWay ==
    Built =>
        \A w \in DOMAIN ways :
            /\ sections[w] >= 1
            /\ graph.attrs[<<w, 0>>].start_node = ways[w].nodes[1]
            /\ graph.attrs[LastSection(w)].end_node = ways[w].nodes[Len(ways[w].nodes)]
            /\ \A i \in 0..(sections[w] - 2) :
                  graph.attrs[<<w, i>>].end_node = graph.attrs[<<w, i + 1>>].start_node

C11_Witness ==
    /\ Built
    /\ \E w \in DOMAIN ways : sections[w] >= 3 /\ ~IsJunction(nodes, ways[w].nodes[Len(ways[w].nodes)])

\* The 'path' attributes of the sections 0..k of way w joined in order, the
\* shared point of each join counted once.
RECURSIVE JoinedPaths(_, _)
JoinedPaths(w, k) ==
    IF k = 0 THEN graph.attrs[<<w, 0>>].path
    ELSE JoinedPaths(w, k - 1) \o Tail(graph.attrs[<<w, k>>].path)

\* The coordinate sequence of W.nodes.
Polyline(w) == [i \in 1..Len(ways[w].nodes) |-> Point(nodes, ways[w].nodes[i])]

\* C12: after build(), for every way the paths of its sections, joined in
\* order with each shared junction point counted once, give exactly the
\* coordinate sequence of the way's nodes, also when the way visits a node
\* id more than once.
C12_PathsJoinToPolyline ==
    Built =>
        \A w \in DOMAIN ways :
            sections[w] >= 1 /\ JoinedPaths(w, sections[w] - 1) = Polyline(w)

\* C13: every section vertex build() adds carries the attributes start_point
\* and end_point, equal to the first and the last element of its path.
C13_SectionsCarryEndPoints ==
    \A name \in DOMAIN graph.attrs :
        LET attrs == graph.attrs[name]
        IN  /\ "start_point" \in DOMAIN attrs
            /\ "end_point" \in DOMAIN attrs
            /\ attrs.start_point = attrs.path[1]
            /\ attrs.end_point = attrs.path[Len(attrs.path)]

\* C14: building twice from the same nodes and the same Way objects, with a
\* fresh builder each time, completes both times, and the two graphs have the
\* same vertex set and the same edge set.
C14_RebuildGivesSameGraph ==
    /\ bpc # "raised"
    /\ (Built /\ earlier.built) =>
          /\ DOMAIN graph.attrs = DOMAIN earlier.graph.attrs
          /\ Edges(graph) = Edges(earlier.graph)

\* C15: build(), given ways of at least two nodes fresh from the loader and
\* the node table with its back-references, never raises, whatever node ids
\* a way repeats and whether it is closed: each loop iteration leaves it in
\* one of its loops or finished, and a closure edge that already existed has
\* only logged the warning.
C15_BuildNeverRaises ==
    /\ bpc \in {"split", "connect", "done"}
    /\ \A w \in warned :
          IsClosed(ways[w]) /\ has_edge(graph, LastSection(w), <<w, 0>>)

C15_Witness ==
    /\ Built
    /\ warned # {}
    /\ \E w \in DOMAIN ways :
          /\ ~IsClosed(ways[w])
          /\ Cardinality(Range(ways[w].nodes)) < Len(ways[w].nodes)
    /\ \E w \in DOMAIN ways : \E i \in 1..(Len(ways[w].nodes) - 1) :
          ways[w].nodes[i] = ways[w].nodes[i + 1]

----------------------------------------------------------------------------
(* Claims about MultiReader                                                *)

Loaded == lpc = "loaded"

WayElemsOf(w) == {i \in 1..Len(xml) : xml[i].tag = "way" /\ xml[i].id = w}

\* The element of the file a way of the table was parsed from: the last one
\* of its id that has a highway tag.
SourceElem(w) ==
    xml[CHOOSE i \in WayElemsOf(w) :
            /\ "highway" \in DOMAIN xml[i].tags
            /\ \A j \in WayElemsOf(w) : "highway" \in DOMAIN xml[j].tags => j <= i]

IsBool(value, b) == value.type = "bool" /\ value.val = b

\* C16: the loader stores the tag values "true", "yes", "t", "y" as True and
\* "false", "no", "f", "n" as False, and a way read with oneway=yes
\* satisfies is_oneway().
C16_TagsCoercedToBooleans ==
    Loaded =>
        \A w \in DOMAIN ways :
            LET raw == SourceElem(w).tags
            IN  /\ \A key \in DOMAIN raw :
                      /\ raw[key] \in Truthy => IsBool(ways[w].tags[key], TRUE)
                      /\ raw[key] \in Falsy => IsBool(ways[w].tags[key], FALSE)
                /\ ("oneway" \in DOMAIN raw /\ raw["oneway"] = "yes") => is_oneway(ways[w])

\* A way is driveable: it has a highway tag that is not cycleway, and none
\* of its access, motorcar, motor_vehicle tags says no, agricultural,
\* delivery or false.
Driveable(raw) ==
    /\ "highway" \in DOMAIN raw
    /\ raw["highway"] # "cycleway"
    /\ \A key \in {"access", "motorcar", "motor_vehicle"} \cap DOMAIN raw :
          raw[key] \notin {"no", "agricultural", "delivery"} \cup Falsy

\* C17: after loading, the ways table holds exactly the driveable ways of
\* the file.
C17_OnlyDriveableWaysKept ==
    Loaded =>
        DOMAIN ways = {xml[i].id : i \in {j \in 1..Len(xml) :
                                            xml[j].tag = "way" /\ Driveable(xml[j].tags)}}

\* C18: after load, for every node n and every way w of the tables, w's id
\* occurs in n.ways as often as n's id occurs in w.nodes, so a node that one
\* way visits twice is a junction for the builder.
C18_BackRefsCountVisits ==
    Loaded =>
        \A n \in DOMAIN nodes : \A w \in DOMAIN ways :
            /\ Count(nodes[n].ways, w) = Count(ways[w].nodes, n)
            /\ Count(ways[w].nodes, n) >= 2 => IsJunction(nodes, n)

C18_Witness ==
    /\ Loaded
    /\ Cardinality(DOMAIN ways) >= 2
    /\ \E n \in DOMAIN nodes : \E w \in DOMAIN ways :
          Count(ways[w].nodes, n) >= 2 /\ Len(nodes[n].ways) >= 3

----------------------------------------------------------------------------
(* Claims about the heuristic                                              *)

\* predicted_cost reads cattrs['start_point'], cattrs['end_point'] and the
\* same of gattrs: it has a value only when the sections carry them, and
\* raises KeyError otherwise.
HeuristicEvaluates(gr, n, gl) ==
    \A section \in {n, gl} : {"start_point", "end_point"} \subseteq DOMAIN gr.attrs[section]

\* The cheapest route from n to gl as g accumulates it: the lengths of the
\* sections left, that of gl not among them.
CheapestByG(gr, n, gl) == ShortestRoute(gr, n, gl) - gr.attrs[gl].length

\* C19: on a built graph, for every section n from which goal is reachable,
\* predicted_cost(n, goal) has a value, and it is at most the cost of the
\* cheapest route from n to goal as g accumulates it.
C19_HeuristicAdmissible ==
    Built =>
        \A n \in DOMAIN graph.attrs : \A gl \in DOMAIN graph.attrs :
            RouteExists(graph, n, gl) =>
                /\ HeuristicEvaluates(graph, n, gl)
                /\ predicted_cost(graph, n, gl) <= CheapestByG(graph, n, gl)

----------------------------------------------------------------------------
(* Claims about the benchmark                                              *)

\* C20: in Astar_benchmark every queued query and every stop signal is
\* eventually acknowledged with task_done, taskqueue.join() returns and all
\* workers exit, whatever the calls of Astar return.
C20_BenchmarkCompletes ==
    <>(mpc = "done" /\ unfinished = 0 /\ \A w \in Workers : wpc[w] = "exited")

----------------------------------------------------------------------------
(* Claims about Astar's bookkeeping                                        *)

InFringe(m) == \E i \in 1..Len(fringe) : fringe[i][2] = m

\* The for loop of Astar is at a neighbour that has an entry in the fringe
\* and whose tentative cost g[current] + length(current) is not smaller than
\* its recorded cost.
NoImprovement ==
    /\ apc = "relax"
    /\ todo # <<>>
    /\ InFringe(Head(todo))
    /\ g[current] + graph.attrs[current].length >= g[Head(todo)]

\* C21: a relaxation step at a neighbour m that is in the fringe and whose
\* tentative cost is not smaller than g[m] leaves ancestors, g and the fringe
\* as they are; and no step of a search increases the g of a section.
C21_NoImprovementChangesNothing ==
    [][/\ NoImprovement => (ancestors' = ancestors /\ g' = g /\ fringe' = fringe)
       /\ \A m \in DOMAIN g : g'[m] <= g[m]]_vars

\* C22: at every point of a search the fringe holds at most |V| entries and
\* the closed set at most |V| sections, |V| the number of vertices of the graph.
C22_FringeAndClosedBounded ==
    apc # "idle" =>
        /\ Len(fringe) <= Cardinality(DOMAIN graph.attrs)
        /\ Cardinality(closed) <= Cardinality(DOMAIN graph.attrs)

\* C23: within one call no section is popped from the fringe when it is in
\* the closed set already, that is, no section is popped twice, whether the
\* search ends with a path or with the fringe exhausted.
C23_NoSectionExpandedTwice ==
    \A i, j \in 1..Len(pops) : pops[i] = pops[j] => i = j

\* The section ids "<way>_<k>" in lexicographic order, a before b or a = b.
IdBeforeOrEqual(a, b) == a[1] < b[1] \/ (a[1] = b[1] /\ a[2] <= b[2])

\* The entry that line 35 pops next.
NextPop == heappop(fringe).item

\* C24: every pop removes an entry with the smallest f of the fringe, and of
\* the entries with that f the one with the smallest section id, also after
\* an entry was replaced by remove, heapify and heappush.
C24_PopsSmallestEntry ==
    (apc = "pop" /\ fringe # <<>>) =>
        \A i \in 1..Len(fringe) :
            \/ NextPop[1] < fringe[i][1]
            \/ NextPop[1] = fringe[i][1] /\ IdBeforeOrEqual(NextPop[2], fringe[i][2])

C24_Witness ==
    /\ apc = "pop"
    /\ replaced
    /\ Len(fringe) >= 3
    /\ \E i \in 1..Len(fringe) : fringe[i][1] = NextPop[1] /\ fringe[i][2] # NextPop[2]
    /\ \E i \in 1..Len(fringe) : fringe[i][1] > NextPop[1]

\* C25: at every point of a search g[start] = 0 and every section m with an
\* ancestor has g[m] = g[ancestors[m]] + length(ancestors[m]); so the g of the
\* goal of a returned path is the summed length of the path's sections
\* without the goal.
C25_GFollowsAncestors ==
    apc # "idle" =>
        /\ g[start] = 0
        /\ \A m \in DOMAIN ancestors :
              g[m] = g[ancestors[m]] + graph.attrs[ancestors[m]].length
        /\ ReturnedPath =>
              g[goal] = RouteLength(graph, result.path) - graph.attrs[goal].length

C25_Witness ==
    /\ ReturnedPath
    /\ Len(result.path) >= 3
    /\ replaced

----------------------------------------------------------------------------
(* Claims about iterative_deepening                                        *)

\* The steps <<predecessor, section>> that end the routes from st of exactly
\* k sections.
RECURSIVE RouteEnds(_, _, _)
RouteEnds(gr, st, k) ==
    IF k = 1 THEN {<<NoSection, st>>}
    ELSE {e \in Edges(gr) :
             \E q \in RouteEnds(gr, st, k - 1) :
                 /\ q[2] = e[1]
                 /\ (q[1] = NoSection \/ LeftOpposite(gr, q[1], q[2], e[2]))}

\* A route from st to gl of at most k sections exists.
RouteWithin(gr, st, gl, k) ==
    \E j \in 1..k : \E e \in RouteEnds(gr, st, j) : e[2] = gl

\* C26: iterative_deepening(graph, start, goal, max_depth) returns a path
\* from start to goal whenever a route of at most max_depth sections exists
\* that leaves each section at the end opposite to its entry.
C26_IterativeDeepeningFindsRoute ==
    (ipc = "returned" /\ RouteWithin(graph, istart, igoal, imax)) =>
        /\ iresult.kind = "path"
        /\ iresult.path[1] = istart
        /\ iresult.path[Len(iresult.path)] = igoal
        /\ \A i \in 1..(Len(iresult.path) - 1) :
              has_edge(graph, iresult.path[i], iresult.path[i + 1])

----------------------------------------------------------------------------
(* Claims about the edges of bidirectional ways                            *)

Bidirectional(section) == ~is_oneway(ways[section[1]])

\* C27: in the built graph the edges between sections of ways that are not
\* one-way are symmetric: a -> b is an edge exactly when b -> a is, whether
\* a and b are of one way or of two, closed ways included.
C27_BidirectionalEdgesSymmetric ==
    Built =>
        \A a, b \in DOMAIN graph.attrs :
            (Bidirectional(a) /\ Bidirectional(b)) =>
                (has_edge(graph, a, b) <=> has_edge(graph, b, a))

----------------------------------------------------------------------------
(* Claims about the ancestors map and the returned sets                    *)

\* C28: at every point of a search the ancestors map is acyclic and rooted
\* at start: start has no ancestor, every recorded ancestor is in the closed
\* set, and the walk of construct_path from any section with an ancestor
\* ends, at start.
C28_AncestorsRootedAtStart ==
    apc # "idle" =>
        /\ start \notin DOMAIN ancestors
        /\ \A m \in DOMAIN ancestors :
              /\ ancestors[m] \in closed
              /\ construct_path(ancestors, m) # <<>>
              /\ construct_path(ancestors, m)[1] = start

C28_Witness ==
    /\ apc = "returned"
    /\ replaced
    /\ \E m \in DOMAIN ancestors :
          /\ Len(construct_path(ancestors, m)) >= 4
          /\ m \notin closed
    /\ \E i, j \in 1..Len(pops) : i # j /\ pops[i] = pops[j]

\* C29: when Astar returns with with_data=True, the returned open set and
\* closed set are disjoint, the open set names no section twice, and every
\* section of the returned path but the goal is in the closed set.
C29_ReturnedSetsConsistent ==
    (ReturnedPath /\ result.with_data) =>
        /\ Range(result.open_set) \cap result.closed = {}
        /\ \A i, j \in 1..Len(result.open_set) :
              result.open_set[i] = result.open_set[j] => i = j
        /\ \A i \in 1..(Len(result.path) - 1) : result.path[i] \in result.closed

----------------------------------------------------------------------------
(* Claims about the end of MultiReader.load                                *)

ParserStopped == ppc \in {"exited", "failed"}

\* C30: whenever the parser subprocess has stopped, after its last element
\* or because opening or parsing the file failed, the end marker None has
\* been sent to the main loop; and once the main loop has left its receive
\* loop, everything sent before the marker has been received and stored.
C30_EndMarkerReachesMainLoop ==
    /\ (ParserStopped /\ lpc = "loading") => \E i \in 1..Len(pipe) : pipe[i] = None
    /\ lpc \in {"backrefs", "loaded", "raised"} =>
          /\ ParserStopped
          /\ pipe = <<>>
          /\ \A i \in 1..sent : xml[i].tag = "node" => xml[i].id \in DOMAIN nodes

====
